---- MODULE Spec2Model ----
(***************************************************************************)
(* Model of gomini's loop detection service (pkg/core, LoopDetectionService)*)
(* and of the streaming client that drives it (Client.SendMessageStream).   *)
(*                                                                          *)
(* Go strings are byte strings: a string is a sequence of byte values       *)
(* (ASCII codes), "" is << >>.  Offsets into strings are 0-based as in the  *)
(* source; SubSeq calls add 1.                                              *)
(***************************************************************************)
EXTENDS Integers, Sequences, FiniteSets, TLC

VARIABLES
    \* LoopDetectionService fields
    promptID, lastToolCallKey, toolCallRepetitionCount,
    streamContentHistory, contentStats, lastContentIndex,
    loopDetected, inCodeBlock, turnsInCurrentPrompt,
    \* Client fields, its configuration and the generation call in progress
    config, sessionTurnCount, lastPromptID, call,
    \* observers: what the callers of the service and of the client saw
    ret, log, lastOp, before, scen

detVars == <<promptID, lastToolCallKey, toolCallRepetitionCount,
             streamContentHistory, contentStats, lastContentIndex,
             loopDetected, inCodeBlock, turnsInCurrentPrompt>>
clientVars == <<config, sessionTurnCount, lastPromptID, call>>
obsVars == <<ret, log, lastOp, before, scen>>
vars == <<detVars, clientVars, obsVars>>

----------------------------------------------------------------------------
(* Program constants                                                       *)

TOOL_CALL_LOOP_THRESHOLD == 5
CONTENT_LOOP_THRESHOLD == 10
CONTENT_CHUNK_SIZE == 50
MAX_HISTORY_LENGTH == 1000
ResultChanCap == 10

\* event types (gomini.EventType)
EventContent == "content"
EventToolCall == "tool_call"
EventFinished == "finished"
EventError == "error"
EventLoopDetected == "loop_detected"
EventMaxSessionTurns == "max_session_turns"

LoopTypeToolCall == "tool_call"
LoopTypeContent == "content"
LoopTypeLLMDetected == "llm_detected"

----------------------------------------------------------------------------
(* Byte strings                                                            *)

Max(a, b) == IF a > b THEN a ELSE b
Min(a, b) == IF a < b THEN a ELSE b

\* n copies of byte c
Rep(c, n) == [i \in 1..n |-> c]
\* n pairwise different bytes base, base+1, ...: a text in which no
\* chunk occurs twice
Gen(base, n) == [i \in 1..n |-> base + i - 1]

\* s[from:to] of Go, 0-based, to exclusive
Slice(s, from, to) == SubSeq(s, from + 1, to)

\* digest of a byte string.  crypto/sha256 is modelled by a 24-bit
\* position-weighted digest: deterministic, depending on every byte and on
\* its position, and (as for any digest) two different strings can have the
\* same digest.
DigestMod == 16777216
Weight(i) == (i * i * 37 + i * 101 + 1) % 65521
RECURSIVE DigestRange(_, _, _)
DigestRange(s, lo, hi) ==
    IF lo > hi THEN 7
    ELSE IF lo = hi THEN (s[lo] * Weight(lo)) % DigestMod
    ELSE LET mid == (lo + hi) \div 2
         IN  (DigestRange(s, lo, mid) + DigestRange(s, mid + 1, hi))
               % DigestMod
Sum256(s) == DigestRange(s, 1, Len(s))

\* hex.EncodeToString: the digest as a string of hex digits, never ""
HexDigit(d) == IF d < 10 THEN 48 + d ELSE 87 + d
EncodeToString(d) ==
    [i \in 1..6 |-> HexDigit((d \div (16 ^ (6 - i))) % 16)]

----------------------------------------------------------------------------
(* Tool-call signature                                                      *)

\* A value json.Marshal rejects (a channel, a func): Marshal returns
\* (nil, err).
Unserializable == "unserializable"

\* lexicographic order on byte strings (encoding/json sorts map keys)
RECURSIVE LessAt(_, _, _)
LessAt(a, b, i) ==
    IF i > Len(a) THEN i <= Len(b)
    ELSE IF i > Len(b) THEN FALSE
    ELSE IF a[i] # b[i] THEN a[i] < b[i]
    ELSE LessAt(a, b, i + 1)
Less(a, b) == LessAt(a, b, 1)

Quote(s) == <<34>> \o s \o <<34>>

\* members of a JSON object for the keys in ks, in sorted key order
RECURSIVE Members(_, _)
Members(args, ks) ==
    IF ks = {} THEN << >>
    ELSE LET k == CHOOSE x \in ks : \A y \in ks \ {x} : Less(x, y)
             rest == Members(args, ks \ {k})
         IN  Quote(k) \o <<58>> \o Quote(args[k])
               \o (IF rest = << >> THEN << >> ELSE <<44>> \o rest)

\* json.Marshal(map[string]interface{}): arguments are a function from key
\* to string value; the error is dropped by the caller, leaving nil bytes.
Marshal(args) ==
    IF \E k \in DOMAIN args : args[k] = Unserializable THEN << >>
    ELSE <<123>> \o Members(args, DOMAIN args) \o <<125>>

\* a signature that also covers the call ID
getToolCallKeyWithCallID(toolCall) ==
    LET argsBytes == Marshal(toolCall.Arguments)
        keyString == toolCall.ToolName \o <<58>> \o argsBytes
    IN  <<toolCall.CallID>> \o EncodeToString(Sum256(keyString))

getToolCallKey(toolCall) ==
    LET argsBytes == Marshal(toolCall.Arguments)
        keyString == toolCall.ToolName \o <<58>> \o argsBytes
    IN  EncodeToString(Sum256(keyString))

hashChunk(chunk) == EncodeToString(Sum256(chunk))

----------------------------------------------------------------------------
(* Structural markers of a content fragment (checkContentLoop's regexps)    *)

\* \s of Go's regexp: [\t\n\f\r ]
IsSpace(c) == c \in {9, 10, 12, 13, 32}
IsDigit(c) == c \in 48..57

\* strings.Count(content, "```"): non-overlapping occurrences, found from
\* left to right: a delimiter starts at i when s[i..i+2] are backticks and
\* the backticks just before i make up whole delimiters
TicksBefore(s, i) ==
    Cardinality({j \in 1..(i - 1) : \A k \in j..(i - 1) : s[k] = 96})
CountFences(s, i) ==
    Cardinality({j \in i..(Len(s) - 2) :
                    /\ s[j] = 96 /\ s[j + 1] = 96 /\ s[j + 2] = 96
                    /\ TicksBefore(s, j) % 3 = 0})
numFences(content) == CountFences(content, 1)

\* positions matched by (^|\n): the start of the text or just after a newline
LineStarts(s) == {i \in 1..(Len(s) + 1) : i = 1 \/ s[i - 1] = 10}
\* positions reachable from i by \s*
AfterSpaces(s, i) ==
    {j \in i..(Len(s) + 1) : \A k \in i..(j - 1) : IsSpace(s[k])}
\* positions matched by (^|\n)\s*
ItemStarts(s) == UNION {AfterSpaces(s, i) : i \in LineStarts(s)}

\* (^|\n)\s*(\|.*\||[|+-]{3,})
hasTable(s) ==
    \E j \in ItemStarts(s) :
        \/ /\ j <= Len(s)
           /\ s[j] = 124
           /\ \E k \in (j + 1)..Len(s) :
                  s[k] = 124 /\ \A m \in (j + 1)..(k - 1) : s[m] # 10
        \/ /\ j + 2 <= Len(s)
           /\ \A m \in j..(j + 2) : s[m] \in {124, 43, 45}

\* (^|\n)\s*[*-+]\s : the class [*-+] is the range from '*' (42) to '+' (43)
\* (^|\n)\s*\d+\.\s
hasListItem(s) ==
    \E j \in ItemStarts(s) :
        \/ /\ j + 1 <= Len(s)
           /\ s[j] \in 42..43
           /\ IsSpace(s[j + 1])
        \/ \E k \in j..(Len(s) - 2) :
               /\ \A m \in j..k : IsDigit(s[m])
               /\ s[k + 1] = 46
               /\ IsSpace(s[k + 2])

\* (^|\n)#+\s
hasHeading(s) ==
    \E i \in LineStarts(s) : \E k \in i..(Len(s) - 1) :
        (\A m \in i..k : s[m] = 35) /\ IsSpace(s[k + 1])

\* (^|\n)>\s
hasBlockquote(s) ==
    \E i \in LineStarts(s) :
        i + 1 <= Len(s) /\ s[i] = 62 /\ IsSpace(s[i + 1])

\* ^[+\-_=*]+$
isDivider(s) ==
    Len(s) >= 1 /\ \A i \in 1..Len(s) : s[i] \in {43, 45, 95, 61, 42}

hasMarker(s) ==
    \/ numFences(s) > 0
    \/ hasTable(s)
    \/ hasListItem(s)
    \/ hasHeading(s)
    \/ hasBlockquote(s)
    \/ isDivider(s)

----------------------------------------------------------------------------
(* LoopDetectionService: the methods as functions on the struct value       *)

\* NewLoopDetectionService
NewLoopDetectionService ==
    [promptID |-> "",
     lastToolCallKey |-> << >>,
     toolCallRepetitionCount |-> 0,
     streamContentHistory |-> << >>,
     contentStats |-> << >>,
     lastContentIndex |-> 0,
     loopDetected |-> FALSE,
     inCodeBlock |-> FALSE,
     turnsInCurrentPrompt |-> 0]

\* the struct value held by the variables
LDS ==
    [promptID |-> promptID,
     lastToolCallKey |-> lastToolCallKey,
     toolCallRepetitionCount |-> toolCallRepetitionCount,
     streamContentHistory |-> streamContentHistory,
     contentStats |-> contentStats,
     lastContentIndex |-> lastContentIndex,
     loopDetected |-> loopDetected,
     inCodeBlock |-> inCodeBlock,
     turnsInCurrentPrompt |-> turnsInCurrentPrompt]

\* a method's result: the struct after the call and the returned value
Result(l, r) == [l |-> l, ret |-> r]

\* m[k] = v of a Go map
MapPut(m, k, v) == (k :> v) @@ m

resetToolCallCount(l) ==
    [l EXCEPT !.lastToolCallKey = << >>, !.toolCallRepetitionCount = 0]

\* a reset that leaves the index as it is
resetContentTrackingKeepsStats(l, resetHistory) ==
    [l EXCEPT !.streamContentHistory = IF resetHistory THEN << >> ELSE @,
              !.lastContentIndex = 0]

resetContentTracking(l, resetHistory) ==
    [l EXCEPT !.streamContentHistory = IF resetHistory THEN << >> ELSE @,
              !.contentStats = << >>,
              !.lastContentIndex = 0]

resetLLMCheckTracking(l) == [l EXCEPT !.turnsInCurrentPrompt = 0]

\* a streak that restarts at 0 when the signature changes
checkToolCallLoopFromZero(l, toolCall) ==
    LET key == getToolCallKey(toolCall)
        l1 == IF l.lastToolCallKey = key
              THEN [l EXCEPT !.toolCallRepetitionCount = @ + 1]
              ELSE [l EXCEPT !.lastToolCallKey = key,
                             !.toolCallRepetitionCount = 0]
    IN  Result(l1, l1.toolCallRepetitionCount >= TOOL_CALL_LOOP_THRESHOLD)

checkToolCallLoop(l, toolCall) ==
    LET key == getToolCallKey(toolCall)
        l1 == IF l.lastToolCallKey = key
              THEN [l EXCEPT !.toolCallRepetitionCount = @ + 1]
              ELSE [l EXCEPT !.lastToolCallKey = key,
                             !.toolCallRepetitionCount = 1]
    IN  Result(l1, l1.toolCallRepetitionCount >= TOOL_CALL_LOOP_THRESHOLD)

\* a truncation that leaves the stored offsets as they are
truncateAndUpdateNoShift(l) ==
    IF Len(l.streamContentHistory) <= MAX_HISTORY_LENGTH THEN l
    ELSE LET truncationAmount ==
                 Len(l.streamContentHistory) - MAX_HISTORY_LENGTH
         IN  [l EXCEPT
                 !.streamContentHistory =
                     Slice(@, truncationAmount, Len(@)),
                 !.lastContentIndex = Max(0, @ - truncationAmount)]

truncateAndUpdate(l) ==
    IF Len(l.streamContentHistory) <= MAX_HISTORY_LENGTH THEN l
    ELSE LET truncationAmount ==
                 Len(l.streamContentHistory) - MAX_HISTORY_LENGTH
             adjusted(oldIndices) ==
                 LET kept == SelectSeq(oldIndices,
                                 LAMBDA index : index - truncationAmount >= 0)
                 IN  [i \in 1..Len(kept) |-> kept[i] - truncationAmount]
             live == {hash \in DOMAIN l.contentStats :
                         Len(adjusted(l.contentStats[hash])) > 0}
         IN  [l EXCEPT
                 !.streamContentHistory =
                     Slice(@, truncationAmount, Len(@)),
                 !.lastContentIndex = Max(0, @ - truncationAmount),
                 !.contentStats =
                     [hash \in live |-> adjusted(l.contentStats[hash])]]

hasMoreChunksToProcess(l) ==
    l.lastContentIndex + CONTENT_CHUNK_SIZE <= Len(l.streamContentHistory)

\* a verification that trusts the digest
isActualContentMatchDigestOnly(l, currentChunk, originalIndex) ==
    originalIndex + CONTENT_CHUNK_SIZE <= Len(l.streamContentHistory)

isActualContentMatch(l, currentChunk, originalIndex) ==
    IF originalIndex + CONTENT_CHUNK_SIZE > Len(l.streamContentHistory)
    THEN FALSE
    ELSE Slice(l.streamContentHistory, originalIndex,
               originalIndex + CONTENT_CHUNK_SIZE) = currentChunk

\* a cluster test that allows an average distance of 2 x CHUNK_SIZE
isLoopDetectedForChunkWide(l, chunk, hash) ==
    IF hash \notin DOMAIN l.contentStats
    THEN Result([l EXCEPT !.contentStats =
                     MapPut(@, hash, <<l.lastContentIndex>>)], FALSE)
    ELSE LET existingIndices == l.contentStats[hash] IN
         IF ~isActualContentMatch(l, chunk, existingIndices[1])
         THEN Result(l, FALSE)
         ELSE LET appended == Append(existingIndices, l.lastContentIndex)
                  l1 == [l EXCEPT !.contentStats = MapPut(@, hash, appended)]
              IN  IF Len(appended) < CONTENT_LOOP_THRESHOLD
                  THEN Result(l1, FALSE)
                  ELSE Result(l1,
                         appended[Len(appended)]
                           - appended[Len(appended)
                                        - CONTENT_LOOP_THRESHOLD + 1]
                           <= 2 * CONTENT_CHUNK_SIZE
                                * (CONTENT_LOOP_THRESHOLD - 1))

isLoopDetectedForChunk(l, chunk, hash) ==
    IF hash \notin DOMAIN l.contentStats
    THEN Result([l EXCEPT !.contentStats =
                     MapPut(@, hash, <<l.lastContentIndex>>)], FALSE)
    ELSE LET existingIndices == l.contentStats[hash] IN
         IF ~isActualContentMatch(l, chunk, existingIndices[1])
         THEN Result(l, FALSE)
         ELSE LET appended == Append(existingIndices, l.lastContentIndex)
                  l1 == [l EXCEPT !.contentStats = MapPut(@, hash, appended)]
              IN  IF Len(appended) < CONTENT_LOOP_THRESHOLD
                  THEN Result(l1, FALSE)
                  ELSE LET recentIndices ==
                               SubSeq(appended,
                                      Len(appended) - CONTENT_LOOP_THRESHOLD + 1,
                                      Len(appended))
                           totalDistance ==
                               recentIndices[Len(recentIndices)]
                                 - recentIndices[1]
                       \* totalDistance / (THRESHOLD-1) <= CHUNK_SIZE * 1.5
                       IN  Result(l1,
                             2 * totalDistance
                               <= 3 * CONTENT_CHUNK_SIZE
                                    * (CONTENT_LOOP_THRESHOLD - 1))

\* an iteration that moves the window by CONTENT_CHUNK_SIZE
analyzeChunkStride(l) ==
    LET endIndex == Min(l.lastContentIndex + CONTENT_CHUNK_SIZE,
                        Len(l.streamContentHistory))
        currentChunk ==
            Slice(l.streamContentHistory, l.lastContentIndex, endIndex)
        chunkHash == hashChunk(currentChunk)
        r == isLoopDetectedForChunk(l, currentChunk, chunkHash)
    IN  IF r.ret THEN Result(r.l, TRUE)
        ELSE Result([r.l EXCEPT !.lastContentIndex = @ + CONTENT_CHUNK_SIZE],
                    FALSE)

\* one iteration of analyzeContentChunksForLoop's loop
analyzeChunk(l) ==
    LET endIndex == Min(l.lastContentIndex + CONTENT_CHUNK_SIZE,
                        Len(l.streamContentHistory))
        currentChunk ==
            Slice(l.streamContentHistory, l.lastContentIndex, endIndex)
        chunkHash == hashChunk(currentChunk)
        r == isLoopDetectedForChunk(l, currentChunk, chunkHash)
    IN  IF r.ret THEN Result(r.l, TRUE)
        ELSE Result([r.l EXCEPT !.lastContentIndex = @ + 1], FALSE)

\* n iterations of the loop, stopping at the first that returns true
RECURSIVE analyzeChunks(_, _)
analyzeChunks(l, n) ==
    IF n = 0 THEN Result(l, FALSE)
    ELSE IF n = 1 THEN analyzeChunk(l)
    ELSE LET first == analyzeChunks(l, n \div 2)
         IN  IF first.ret THEN first
             ELSE analyzeChunks(first.l, n - (n \div 2))

\* a scan that looks at one chunk per call
analyzeOneChunk(l) ==
    IF ~hasMoreChunksToProcess(l) THEN Result(l, FALSE)
    ELSE analyzeChunk(l)

\* the loop runs while hasMoreChunksToProcess: once for every offset from
\* the cursor on at which a full chunk exists (the history does not change
\* during the scan and the cursor advances by one)
analyzeContentChunksForLoop(l) ==
    IF ~hasMoreChunksToProcess(l) THEN Result(l, FALSE)
    ELSE analyzeChunks(l, Len(l.streamContentHistory) - CONTENT_CHUNK_SIZE
                            - l.lastContentIndex + 1)

\* a fence check that looks at the flag after the fragment only
checkContentLoopAfterOnly(l, content) ==
    LET l1 == IF hasMarker(content) THEN resetContentTracking(l, FALSE)
              ELSE l
        l2 == [l1 EXCEPT !.inCodeBlock =
                  ((numFences(content) % 2 = 0) = l1.inCodeBlock)]
    IN  IF l2.inCodeBlock \/ isDivider(content)
        THEN Result(l2, FALSE)
        ELSE analyzeContentChunksForLoop(
                 truncateAndUpdate(
                     [l2 EXCEPT !.streamContentHistory = @ \o content]))

checkContentLoop(l, content) ==
    LET l1 == IF hasMarker(content) THEN resetContentTracking(l, FALSE)
              ELSE l
        wasInCodeBlock == l1.inCodeBlock
        l2 == [l1 EXCEPT !.inCodeBlock =
                  ((numFences(content) % 2 = 0) = l1.inCodeBlock)]
    IN  IF wasInCodeBlock \/ l2.inCodeBlock \/ isDivider(content)
        THEN Result(l2, FALSE)
        ELSE analyzeContentChunksForLoop(
                 truncateAndUpdate(
                     [l2 EXCEPT !.streamContentHistory = @ \o content]))

\* a Reset that forgets to call resetToolCallCount
ResetKeepsToolCount(l, p) ==
    [resetLLMCheckTracking(
        resetContentTracking([l EXCEPT !.promptID = p], TRUE))
     EXCEPT !.loopDetected = FALSE]

\* Reset(promptID)
ResetLDS(l, p) ==
    [resetLLMCheckTracking(
        resetContentTracking(
            resetToolCallCount([l EXCEPT !.promptID = p]), TRUE))
     EXCEPT !.loopDetected = FALSE]

\* an AddAndCheck without the early return of lines 82-84
AddAndCheckNotSticky(l, event) ==
    IF event.Type = EventToolCall
    THEN LET l1 == resetContentTracking(l, FALSE) IN
         IF event.Data.dtype = "gomini.ToolCallEvent"
         THEN LET r == checkToolCallLoop(l1, event.Data)
              IN  Result([r.l EXCEPT !.loopDetected = r.ret], r.ret)
         ELSE Result(l1, l1.loopDetected)
    ELSE IF event.Type = EventContent
              /\ event.Data.dtype = "gomini.ContentEvent"
    THEN LET r == checkContentLoop(l, event.Data.Text)
         IN  Result([r.l EXCEPT !.loopDetected = r.ret], r.ret)
    ELSE Result(l, l.loopDetected)

\* AddAndCheck(event).  event.Data carries its dynamic Go type in dtype; the
\* type assertions of lines 91 and 95 succeed only for the gomini types.
AddAndCheckLDS(l, event) ==
    IF l.loopDetected THEN Result(l, TRUE)
    ELSE IF event.Type = EventToolCall
    THEN LET l1 == resetContentTracking(l, FALSE) IN
         IF event.Data.dtype = "gomini.ToolCallEvent"
         THEN LET r == checkToolCallLoop(l1, event.Data)
              IN  Result([r.l EXCEPT !.loopDetected = r.ret], r.ret)
         ELSE Result(l1, l1.loopDetected)
    ELSE IF event.Type = EventContent
              /\ event.Data.dtype = "gomini.ContentEvent"
    THEN LET r == checkContentLoop(l, event.Data.Text)
         IN  Result([r.l EXCEPT !.loopDetected = r.ret], r.ret)
    ELSE Result(l, l.loopDetected)

\* a turn start that reports the sticky flag
TurnStartedReportsLatch(l) ==
    Result([l EXCEPT !.turnsInCurrentPrompt = @ + 1], l.loopDetected)

\* TurnStarted(ctx)
TurnStartedLDS(l) ==
    Result([l EXCEPT !.turnsInCurrentPrompt = @ + 1], FALSE)

\* the variables hold the struct value l
SetInit(l) ==
    /\ promptID = l.promptID
    /\ lastToolCallKey = l.lastToolCallKey
    /\ toolCallRepetitionCount = l.toolCallRepetitionCount
    /\ streamContentHistory = l.streamContentHistory
    /\ contentStats = l.contentStats
    /\ lastContentIndex = l.lastContentIndex
    /\ loopDetected = l.loopDetected
    /\ inCodeBlock = l.inCodeBlock
    /\ turnsInCurrentPrompt = l.turnsInCurrentPrompt

\* store a struct value into the variables
SetLDS(l) ==
    /\ promptID' = l.promptID
    /\ lastToolCallKey' = l.lastToolCallKey
    /\ toolCallRepetitionCount' = l.toolCallRepetitionCount
    /\ streamContentHistory' = l.streamContentHistory
    /\ contentStats' = l.contentStats
    /\ lastContentIndex' = l.lastContentIndex
    /\ loopDetected' = l.loopDetected
    /\ inCodeBlock' = l.inCodeBlock
    /\ turnsInCurrentPrompt' = l.turnsInCurrentPrompt

----------------------------------------------------------------------------
(* Events                                                                   *)

ToolCallEvent(callID, toolName, arguments) ==
    [Type |-> EventToolCall,
     Data |-> [dtype |-> "gomini.ToolCallEvent", CallID |-> callID,
               ToolName |-> toolName, Arguments |-> arguments]]
ContentEvent(text) ==
    [Type |-> EventContent,
     Data |-> [dtype |-> "gomini.ContentEvent", Text |-> text]]
FinishedEvent == [Type |-> EventFinished, Data |-> [dtype |-> "nil"]]
ErrorEvent == [Type |-> EventError, Data |-> [dtype |-> "nil"]]

IsToolCall(e) ==
    e.Type = EventToolCall /\ e.Data.dtype = "gomini.ToolCallEvent"
IsContent(e) ==
    e.Type = EventContent /\ e.Data.dtype = "gomini.ContentEvent"
\* the same tool call: same tool name and same arguments
SameToolCall(e, f) ==
    /\ IsToolCall(e) /\ IsToolCall(f)
    /\ e.Data.ToolName = f.Data.ToolName
    /\ e.Data.Arguments = f.Data.Arguments

\* "t1" called with {"a": "v"}, under two call IDs, and "t2" with {"a": "w"}
ArgsV == [k \in {<<97>>} |-> <<118>>]
ArgsW == [k \in {<<97>>} |-> <<119>>]
TcA1 == ToolCallEvent("call-1", <<116, 49>>, ArgsV)
TcA2 == ToolCallEvent("call-2", <<116, 49>>, ArgsV)
TcB == ToolCallEvent("call-3", <<116, 50>>, ArgsW)

\* "aaaaaaaaaaaaaaaaaaaaaaaaaaaaaa": two of these in a row hold the chunk
\* "a" x 50 at eleven consecutive offsets
CRep == ContentEvent(Rep(97, 30))
\* "ABCDEFGHIJKLMNOPQRST"
COther == ContentEvent(Gen(65, 20))
\* "```go\n"
CFence == ContentEvent(<<96, 96, 96, 103, 111, 10>>)

PromptIDs == {"p1", "p2"}

----------------------------------------------------------------------------
(* Bounds: AddAndCheck calls between two Resets, TurnStarted calls between  *)
(* two Resets                                                              *)

MaxEvents == 4
MaxToolEvents == 6
MaxResetEvents == 6
MaxTurns == 1

----------------------------------------------------------------------------
(* The service's methods as steps; the observers record what the caller    *)
(* saw: ret is the value returned by the last call (FALSE when it returned  *)
(* nothing), lastOp the method last called, log the AddAndCheck            *)
(* calls made since the service was constructed or last Reset, before what *)
(* the session was like when it was last Reset                             *)

LDSReset(p) ==
    /\ SetLDS(ResetLDS(LDS, p))
    /\ ret' = FALSE
    /\ log' = << >>
    /\ lastOp' = "Reset"
    /\ before' = [promptID |-> promptID, latched |-> loopDetected,
                  inCodeBlock |-> inCodeBlock]

\* an AddAndCheck that returns true on a latched session after analysing
\* the event all the same
LDSAddAndCheckAnalysesLatched(event) ==
    LET r == AddAndCheckNotSticky(LDS, event)
        latched == loopDetected \/ r.ret
    IN
    /\ SetLDS([r.l EXCEPT !.loopDetected = latched])
    /\ ret' = latched
    /\ log' = Append(log, [ev |-> event, ret |-> latched])
    /\ lastOp' = "AddAndCheck"
    /\ UNCHANGED before

LDSAddAndCheck(event) ==
    LET r == AddAndCheckLDS(LDS, event) IN
    /\ SetLDS(r.l)
    /\ ret' = r.ret
    /\ log' = Append(log, [ev |-> event, ret |-> r.ret])
    /\ lastOp' = "AddAndCheck"
    /\ UNCHANGED before

\* a turn start that forgets the tool-call streak
LDSTurnStartedResetsStreak ==
    LET r == TurnStartedLDS(LDS) IN
    /\ SetLDS(resetToolCallCount(r.l))
    /\ ret' = r.ret
    /\ lastOp' = "TurnStarted"
    /\ UNCHANGED <<log, before>>

LDSTurnStarted ==
    LET r == TurnStartedLDS(LDS) IN
    /\ SetLDS(r.l)
    /\ ret' = r.ret
    /\ lastOp' = "TurnStarted"
    /\ UNCHANGED <<log, before>>

\* IsLoopDetected(): a read of the sticky flag
IsLoopDetected == loopDetected

InitLDS ==
    /\ SetInit(NewLoopDetectionService)
    /\ ret = FALSE
    /\ log = << >>
    /\ lastOp = "none"
    /\ before = [promptID |-> "", latched |-> FALSE, inCodeBlock |-> FALSE]

InitClient ==
    /\ config = [MaxSessionTurns |-> 0, LoopDetectionEnabled |-> TRUE]
    /\ sessionTurnCount = 0
    /\ lastPromptID = ""
    /\ call = [pc |-> "idle"]

----------------------------------------------------------------------------
(* The service driven directly by a caller                                  *)

Reset(p) ==
    /\ LDSReset(p)
    /\ UNCHANGED <<clientVars, scen>>

AddAndCheck(event) ==
    /\ LDSAddAndCheck(event)
    /\ UNCHANGED <<clientVars, scen>>

TurnStarted ==
    /\ turnsInCurrentPrompt < MaxTurns
    /\ LDSTurnStarted
    /\ UNCHANGED <<clientVars, scen>>

Init ==
    /\ InitLDS
    /\ InitClient
    /\ scen = "none"

\* Spec: tool calls, repeating and non-repeating content, a code fence and a
\* pass-through event, in any order
Events == {TcA1, CRep, COther, CFence, FinishedEvent}

Next ==
    \/ \E p \in PromptIDs : Reset(p)
    \/ \E e \in Events : Len(log) < MaxEvents /\ AddAndCheck(e)
    \/ TurnStarted

Spec == Init /\ [][Next]_vars

\* SpecTool: tool calls only
ToolEvents == {TcA1, TcA2, TcB}

NextTool ==
    \/ \E p \in PromptIDs : Reset(p)
    \/ \E e \in ToolEvents : Len(log) < MaxToolEvents /\ AddAndCheck(e)

SpecTool == Init /\ [][NextTool]_vars

\* SpecReset: enough calls between two Resets to reach either threshold
ResetEvents == {TcA1, CRep, CFence}

NextReset ==
    \/ \E p \in PromptIDs : Reset(p)
    \/ \E e \in ResetEvents : Len(log) < MaxResetEvents /\ AddAndCheck(e)
    \/ TurnStarted

SpecReset == Init /\ [][NextReset]_vars

----------------------------------------------------------------------------
(* Scenarios: the service fed one particular pattern of content fragments.  *)
(* scen holds the position in the pattern.                                  *)

MaxPrelude == 1
MaxFenceRepeats == 21
MaxFeeds == 14
MaxSpacedFeeds == 30

PreludeEvents == {CRep, TcA1, CFence}

\* SpecStreak: a new session fed two different tool calls in any order
MaxStreakEvents == 9

StreakEvents == {TcA1, TcB}

NextStreak ==
    \E e \in StreakEvents : Len(log) < MaxStreakEvents /\ AddAndCheck(e)

SpecStreak == Init /\ [][NextStreak]_vars

\* SpecMalformed: calls of "t1" whose arguments json.Marshal rejects,
\* {"a": <chan>} and {"b": <chan>}, among well-formed calls
MaxMalformedEvents == 6

ArgsBadA == [k \in {<<97>>} |-> Unserializable]
ArgsBadB == [k \in {<<98>>} |-> Unserializable]
TcBadA == ToolCallEvent("call-4", <<116, 49>>, ArgsBadA)
TcBadB == ToolCallEvent("call-5", <<116, 49>>, ArgsBadB)

MalformedEvents == {TcBadA, TcBadB, TcA1}

NextMalformed ==
    \/ Reset("p1")
    \/ \E e \in MalformedEvents :
           Len(log) < MaxMalformedEvents /\ AddAndCheck(e)

SpecMalformed == Init /\ [][NextMalformed]_vars

\* SpecTurns: turn starts between tool calls that can latch a loop; scen
\* counts the TurnStarted calls made since the session was constructed or
\* last Reset
MaxTurnCalls == 4
MaxTurnFeeds == 5

InitTurns ==
    /\ InitLDS
    /\ InitClient
    /\ scen = [turns |-> 0]

TurnsReset ==
    /\ LDSReset("p1")
    /\ scen' = [turns |-> 0]
    /\ UNCHANGED clientVars

TurnsFeed ==
    /\ Len(log) < MaxTurnFeeds
    /\ \E e \in StreakEvents : LDSAddAndCheck(e)
    /\ UNCHANGED <<clientVars, scen>>

TurnsStart ==
    /\ scen.turns < MaxTurnCalls
    /\ LDSTurnStarted
    /\ scen' = [turns |-> scen.turns + 1]
    /\ UNCHANGED clientVars

NextTurns ==
    \/ TurnsReset
    \/ TurnsFeed
    \/ TurnsStart

SpecTurns == InitTurns /\ [][NextTurns]_vars

\* SpecBoundary: runs of "a" with a heading line, a line of other text and
\* a tool call between them; scen holds the length the history had when the
\* last marker fragment and the last tool call arrived (-1: none since the
\* Reset)
MaxBoundaryEvents == 4

\* "a" x 58, which holds the chunk "a" x 50 nine times
CRun == ContentEvent(Rep(97, 58))
\* "# h\n"
CHeading == ContentEvent(<<35, 32, 104, 10>>)
\* "xyz\n"
CLine == ContentEvent(<<120, 121, 122, 10>>)

InitBoundary ==
    /\ InitLDS
    /\ InitClient
    /\ scen = [marker |-> -1, toolCall |-> -1]

BoundaryReset ==
    /\ LDSReset("p1")
    /\ scen' = [marker |-> -1, toolCall |-> -1]
    /\ UNCHANGED clientVars

BoundaryText ==
    /\ Len(log) < MaxBoundaryEvents
    /\ \E e \in {CRun, CLine} : LDSAddAndCheck(e)
    /\ UNCHANGED <<clientVars, scen>>

BoundaryMarker ==
    /\ Len(log) < MaxBoundaryEvents
    /\ LDSAddAndCheck(CHeading)
    /\ scen' = IF loopDetected THEN scen
               ELSE [scen EXCEPT !.marker = Len(streamContentHistory)]
    /\ UNCHANGED clientVars

BoundaryToolCall ==
    /\ Len(log) < MaxBoundaryEvents
    /\ LDSAddAndCheck(TcA1)
    /\ scen' = IF loopDetected THEN scen
               ELSE [scen EXCEPT !.toolCall = Len(streamContentHistory)]
    /\ UNCHANGED clientVars

NextBoundary ==
    \/ BoundaryReset
    \/ BoundaryText
    \/ BoundaryMarker
    \/ BoundaryToolCall

SpecBoundary == InitBoundary /\ [][NextBoundary]_vars

\* SpecCollide: two different strings of CONTENT_CHUNK_SIZE bytes with the
\* same digest, fed in any order.  CollideB differs from CollideA in bytes
\* 10 and 49: 6 x Weight(10) = 1 x Weight(49).  The first MaxCollideFree
\* fragments are any of the two, the later ones differ from the fragment
\* before them.
MaxCollideFree == 5
MaxCollideEvents == 10

CollideA == Gen(97, 50)
CollideB == [CollideA EXCEPT ![10] = @ + 6, ![49] = @ - 1]
CollideEvents == {ContentEvent(CollideA), ContentEvent(CollideB)}

NextCollide ==
    \/ Reset("p1")
    \/ \E e \in CollideEvents :
           /\ Len(log) < MaxCollideEvents
           /\ Len(log) >= MaxCollideFree => e # log[Len(log)].ev
           /\ AddAndCheck(e)

SpecCollide == Init /\ [][NextCollide]_vars

\* SpecList: fragments that are list items, and a line of plain text
MaxListEvents == 3

\* "- a\n", "* a\n", "+ a\n", "12. a\n", "  - a\n", "a\n- b\n"
ListFragments ==
    {<<45, 32, 97, 10>>, <<42, 32, 97, 10>>, <<43, 32, 97, 10>>,
     <<49, 50, 46, 32, 97, 10>>, <<32, 32, 45, 32, 97, 10>>,
     <<97, 10, 45, 32, 98, 10>>}
ListEvents == {ContentEvent(text) : text \in ListFragments} \cup {CLine}

NextList ==
    \/ Reset("p1")
    \/ \E e \in ListEvents : Len(log) < MaxListEvents /\ AddAndCheck(e)

SpecList == Init /\ [][NextList]_vars

\* SpecTrunc: a long fragment of prose that fills the history past
\* MAX_HISTORY_LENGTH when fed again, with tool calls, Resets and turn
\* starts in between
MaxTruncEvents == 3

\* n lower-case letters without a period
Text(seed, n) ==
    [i \in 1..n |->
        97 + ((i * i * i + seed * i + (i \div 26) * (i % 26)) % 26)]

TruncEvents == {ContentEvent(Text(1, 520)), TcA1}

NextTrunc ==
    \/ Reset("p1")
    \/ \E e \in TruncEvents : Len(log) < MaxTruncEvents /\ AddAndCheck(e)
    \/ TurnStarted

SpecTrunc == Init /\ [][NextTrunc]_vars

\* SpecFence: a fragment opens a code fence, one fence-free fragment is
\* repeated, a fragment closes the fence.
\* "```go\n" and "a```b```c```": one and three fence delimiters
OpenFragments ==
    {<<96, 96, 96, 103, 111, 10>>,
     <<97, 96, 96, 96, 98, 96, 96, 96, 99, 96, 96, 96>>}
\* "aaaaaaaaaaaaaaaaaaaaaaaaaaaaaa" and "func main() {\n"
FenceFreeFragments ==
    {Rep(97, 30),
     <<102, 117, 110, 99, 32, 109, 97, 105, 110, 40, 41, 32, 123, 10>>}
\* "}\n```\n" and 59 x "a" followed by "```"
CloseFragments ==
    {<<125, 10, 96, 96, 96, 10>>, Rep(97, 59) \o <<96, 96, 96>>}

InitFence ==
    /\ InitLDS
    /\ InitClient
    /\ scen = [phase |-> "prelude", start |-> 0, rep |-> << >>, n |-> 0]

FencePrelude ==
    /\ scen.phase = "prelude"
    /\ Len(log) < MaxPrelude
    /\ \E e \in PreludeEvents : LDSAddAndCheck(e)
    /\ UNCHANGED <<clientVars, scen>>

FenceOpen ==
    /\ scen.phase = "prelude"
    /\ ~inCodeBlock /\ ~loopDetected
    /\ \E f \in OpenFragments : LDSAddAndCheck(ContentEvent(f))
    /\ scen' = [scen EXCEPT !.phase = "open", !.start = Len(log) + 1]
    /\ UNCHANGED clientVars

FenceRepeat ==
    /\ scen.phase \in {"open", "repeat"}
    /\ scen.n < MaxFenceRepeats
    /\ \E f \in FenceFreeFragments :
           /\ scen.phase = "repeat" => f = scen.rep
           /\ LDSAddAndCheck(ContentEvent(f))
           /\ scen' = [scen EXCEPT !.phase = "repeat", !.rep = f,
                                   !.n = @ + 1]
    /\ UNCHANGED clientVars

FenceClose ==
    /\ scen.phase = "repeat"
    /\ \E f \in CloseFragments : LDSAddAndCheck(ContentEvent(f))
    /\ scen' = [scen EXCEPT !.phase = "closed"]
    /\ UNCHANGED clientVars

NextFence == FencePrelude \/ FenceOpen \/ FenceRepeat \/ FenceClose

SpecFence == InitFence /\ [][NextFence]_vars

\* SpecRepeat: after a Reset, one string is fed again and again.
\* "This is a repeating pattern that should be detected as a loop. "
TestString ==
    <<84, 104, 105, 115, 32, 105, 115, 32, 97, 32, 114, 101, 112, 101, 97,
      116, 105, 110, 103, 32, 112, 97, 116, 116, 101, 114, 110, 32, 116, 104,
      97, 116, 32, 115, 104, 111, 117, 108, 100, 32, 98, 101, 32, 100, 101,
      116, 101, 99, 116, 101, 100, 32, 97, 115, 32, 97, 32, 108, 111, 111,
      112, 46, 32>>
RepeatStrings ==
    {Gen(97, 50), TestString, Gen(97, 75), Gen(97, 76), Gen(97, 100)}

InitRepeat ==
    /\ InitLDS
    /\ InitClient
    /\ scen = [phase |-> "prelude", str |-> << >>, n |-> 0]

RepeatPrelude ==
    /\ scen.phase = "prelude"
    /\ Len(log) < MaxPrelude
    /\ \E e \in PreludeEvents : LDSAddAndCheck(e)
    /\ UNCHANGED <<clientVars, scen>>

RepeatReset ==
    /\ scen.phase = "prelude"
    /\ \E p \in PromptIDs : LDSReset(p)
    /\ scen' = [scen EXCEPT !.phase = "reset"]
    /\ UNCHANGED clientVars

RepeatFeed ==
    /\ scen.phase \in {"reset", "feed"}
    /\ scen.n < MaxFeeds
    /\ \E str \in RepeatStrings :
           /\ scen.phase = "feed" => str = scen.str
           /\ LDSAddAndCheck(ContentEvent(str))
           /\ scen' = [phase |-> "feed", str |-> str, n |-> scen.n + 1]
    /\ UNCHANGED clientVars

NextRepeat == RepeatPrelude \/ RepeatReset \/ RepeatFeed

SpecRepeat == InitRepeat /\ [][NextRepeat]_vars

\* SpecSpaced: one string and one filler are fed in turn, the string's
\* occurrences more than 1.5 x CHUNK_SIZE apart.
\* "abc...", "abc...xyabc...xy" and "aaa..."
SpacedStrings ==
    {Gen(97, 50), Gen(97, 60), Gen(97, 25) \o Gen(97, 25), Rep(97, 60)}
Fillers == {Gen(160, 26), Gen(160, 40)}

\* the chunk of CHUNK_SIZE bytes at 0-based offset p of text u
ChunkAt(u, p) == Slice(u, p, p + CONTENT_CHUNK_SIZE)
\* no chunk occurs twice within one period of str filler str filler ...
NoRepeatedChunk(str, filler) ==
    LET period == Len(str) + Len(filler)
        u == str \o filler \o str \o filler
    IN  \A p, q \in 0..(period - 1) :
            p < q => ChunkAt(u, p) # ChunkAt(u, q)

InitSpaced ==
    /\ InitLDS
    /\ InitClient
    /\ scen = [phase |-> "start", str |-> << >>, filler |-> << >>,
               norepeat |-> FALSE, n |-> 0]

SpacedStart ==
    /\ scen.phase = "start"
    /\ \E str \in SpacedStrings, filler \in Fillers :
           /\ 2 * (Len(str) + Len(filler)) > 3 * CONTENT_CHUNK_SIZE
           /\ LDSAddAndCheck(ContentEvent(str))
           /\ scen' = [phase |-> "string", str |-> str, filler |-> filler,
                       norepeat |-> NoRepeatedChunk(str, filler), n |-> 1]
    /\ UNCHANGED clientVars

SpacedFiller ==
    /\ scen.phase = "string"
    /\ scen.n < MaxSpacedFeeds
    /\ LDSAddAndCheck(ContentEvent(scen.filler))
    /\ scen' = [scen EXCEPT !.phase = "filler", !.n = @ + 1]
    /\ UNCHANGED clientVars

SpacedString ==
    /\ scen.phase = "filler"
    /\ scen.n < MaxSpacedFeeds
    /\ LDSAddAndCheck(ContentEvent(scen.str))
    /\ scen' = [scen EXCEPT !.phase = "string", !.n = @ + 1]
    /\ UNCHANGED clientVars

NextSpaced == SpacedStart \/ SpacedFiller \/ SpacedString

SpecSpaced == InitSpaced /\ [][NextSpaced]_vars

----------------------------------------------------------------------------
(* The client: SendMessageStream, one call at a time.  The goroutine of a   *)
(* call is at call.pc; resultChan is the buffered channel it writes to and  *)
(* out is what the consumer has received from it.                           *)

MaxCalls == 4
Budgets == {0, 1, 2}

\* provider events: providers.StreamEvent values on providerChan
ProviderContentEvent(text) ==
    [Type |-> EventContent,
     Data |-> [dtype |-> "providers.ContentEvent", Text |-> text]]

convertEventData(eventType, data) ==
    IF eventType = EventContent /\ data.dtype = "providers.ContentEvent"
    THEN [dtype |-> "gomini.ContentEvent", Text |-> data.Text]
    ELSE data

gominiEvent(event) ==
    [Type |-> event.Type, Data |-> convertEventData(event.Type, event.Data)]

NewMaxSessionTurnsEvent(currentTurns, maxTurns, p) ==
    [Type |-> EventMaxSessionTurns,
     Data |-> [dtype |-> "gomini.MaxSessionTurnsEvent",
               CurrentTurns |-> currentTurns, MaxTurns |-> maxTurns,
               PromptID |-> p]]

NewLoopDetectedEvent(loopType, p, turnCount, repeatCount) ==
    [Type |-> EventLoopDetected,
     Data |-> [dtype |-> "gomini.LoopDetectedEvent", LoopType |-> loopType,
               PromptID |-> p, TurnCount |-> turnCount,
               RepeatCount |-> repeatCount]]

NewErrorEvent ==
    [Type |-> EventError, Data |-> [dtype |-> "gomini.ErrorEvent"]]

\* what the provider sends on providerChan before closing it: an error event
\* is the last event of a stream
ProviderStreams ==
    {[i \in 1..(2 * TOOL_CALL_LOOP_THRESHOLD) |-> TcA1],
     <<ProviderContentEvent(Rep(97, 30)), ProviderContentEvent(Rep(97, 30)),
       FinishedEvent>>,
     <<ProviderContentEvent(Gen(65, 20)), FinishedEvent>>,
     <<TcA1, ErrorEvent>>,
     <<ErrorEvent>>,
     [i \in 1..(ResultChanCap + 2) |-> IF i % 2 = 1 THEN TcA1 ELSE TcB]}

InitSendMessageStream ==
    /\ config \in [MaxSessionTurns : Budgets, LoopDetectionEnabled : BOOLEAN]
    /\ sessionTurnCount = 0
    /\ lastPromptID = ""
    /\ call = [pc |-> "idle", promptID |-> "", seq |-> 0, calls |-> 0,
               limited |-> FALSE, afterLimited |-> FALSE,
               contacted |-> FALSE, stream |-> << >>, providerChan |-> << >>,
               resultChan |-> << >>, out |-> << >>,
               cancelled |-> FALSE, sentAtCancel |-> 0,
               loopBefore |-> FALSE]

\* SendMessageStream(ctx, request, promptID): makes resultChan and starts the
\* goroutine; seq counts the consecutive calls made with this promptID,
\* limited tells that the turn limit ended the call and afterLimited that
\* it ended the call before; cancelled tells that the call's ctx is
\* cancelled and sentAtCancel how many events the call had sent by then;
\* loopBefore tells that an earlier call of the run of consecutive calls
\* with this promptID sent a LoopDetected event
SendMessageStream(p) ==
    /\ \/ call.pc = "idle"
       \/ call.pc = "done" /\ call.resultChan = << >>
    /\ call.calls < MaxCalls
    /\ call' = [pc |-> "setup", promptID |-> p,
                seq |-> IF p = call.promptID THEN call.seq + 1 ELSE 1,
                calls |-> call.calls + 1,
                limited |-> FALSE, afterLimited |-> call.limited,
                contacted |-> FALSE, stream |-> << >>,
                providerChan |-> << >>, resultChan |-> << >>, out |-> << >>,
                cancelled |-> FALSE, sentAtCancel |-> 0,
                loopBefore |->
                    /\ p = call.promptID
                    /\ \/ call.loopBefore
                       \/ \E i \in 1..Len(call.out) :
                              call.out[i].Type = EventLoopDetected]
    /\ UNCHANGED <<detVars, config, sessionTurnCount, lastPromptID, obsVars>>

\* a turn limit that stops the call that reaches the limit
SessionTurnLimitReached(count) ==
    config.MaxSessionTurns > 0 /\ count >= config.MaxSessionTurns

\* the session turn limit check
SessionTurnLimitExceeded(count) ==
    config.MaxSessionTurns > 0 /\ count > config.MaxSessionTurns

\* a turn count that goes on counting when the promptID changes
sessionTurnCountKept(p) == sessionTurnCount + 1

\* the turn count of a call with promptID p: zeroed when the promptID
\* differs from lastPromptID, then incremented
nextSessionTurnCount(p) ==
    (IF lastPromptID # p THEN 0 ELSE sessionTurnCount) + 1

\* a session management that resets the detector on every call
SessionSetupAlwaysResets ==
    /\ call.pc = "setup"
    /\ LDSReset(call.promptID)
    /\ lastPromptID' = call.promptID
    /\ sessionTurnCount' = nextSessionTurnCount(call.promptID)
    /\ IF SessionTurnLimitExceeded(sessionTurnCount')
       THEN call' = [call EXCEPT
                !.limited = TRUE,
                !.resultChan = Append(@,
                    NewMaxSessionTurnsEvent(sessionTurnCount',
                        config.MaxSessionTurns, call.promptID)),
                !.pc = "done"]
       ELSE call' = [call EXCEPT !.pc = "turn"]
    /\ UNCHANGED <<config, scen>>

\* session management and the session turn limit
SessionSetup ==
    /\ call.pc = "setup"
    /\ IF lastPromptID # call.promptID
       THEN /\ LDSReset(call.promptID)
            /\ lastPromptID' = call.promptID
       ELSE UNCHANGED <<detVars, lastPromptID, ret, log, lastOp, before>>
    /\ sessionTurnCount' = nextSessionTurnCount(call.promptID)
    /\ IF SessionTurnLimitExceeded(sessionTurnCount')
       THEN call' = [call EXCEPT
                !.limited = TRUE,
                !.resultChan = Append(@,
                    NewMaxSessionTurnsEvent(sessionTurnCount',
                        config.MaxSessionTurns, call.promptID)),
                !.pc = "done"]
       ELSE call' = [call EXCEPT !.pc = "turn"]
    /\ UNCHANGED <<config, scen>>

\* the check at turn start, the provider switch and the provider's
\* SendMessageStream
TurnStart ==
    /\ call.pc = "turn"
    /\ IF config.LoopDetectionEnabled
       THEN LDSTurnStarted
       ELSE UNCHANGED <<detVars, ret, log, lastOp, before>>
    /\ IF config.LoopDetectionEnabled /\ ret'
       THEN call' = [call EXCEPT
                !.resultChan = Append(@,
                    NewLoopDetectedEvent(LoopTypeLLMDetected, call.promptID,
                                         sessionTurnCount, 0)),
                !.pc = "done"]
       ELSE \/ call' = [call EXCEPT
                    !.resultChan = Append(@, NewErrorEvent),
                    !.pc = "done"]
            \/ \E stream \in ProviderStreams :
                   call' = [call EXCEPT !.contacted = TRUE,
                                        !.stream = stream,
                                        !.providerChan = stream,
                                        !.pc = "stream"]
    /\ UNCHANGED <<config, sessionTurnCount, lastPromptID, scen>>

\* the loop body without the loop check: convert and forward
ForwardEvent(event) ==
    /\ UNCHANGED <<detVars, ret, log, lastOp, before>>
    /\ call' = [call EXCEPT
           !.providerChan = Tail(@),
           !.resultChan = Append(@, gominiEvent(event)),
           !.pc = IF event.Type = EventError \/ Tail(call.providerChan) = << >>
                  THEN "done" ELSE "stream"]

\* a loop kind that is always tool-call
loopTypeToolCallOnly(event) == LoopTypeToolCall

\* the loop kind of the LoopDetected event sent in place of event
loopType(event) ==
    IF event.Type = EventContent THEN LoopTypeContent ELSE LoopTypeToolCall

\* a loop body that sends the LoopDetected event and goes on reading
CheckAndForwardEventContinue(event) ==
    /\ LDSAddAndCheck(gominiEvent(event))
    /\ call' = [call EXCEPT
           !.providerChan = Tail(@),
           !.resultChan = Append(@,
               IF ret'
               THEN NewLoopDetectedEvent(loopType(gominiEvent(event)),
                        call.promptID, sessionTurnCount, 0)
               ELSE gominiEvent(event)),
           !.pc = IF event.Type = EventError \/ Tail(call.providerChan) = << >>
                  THEN "done" ELSE "stream"]

\* the loop body with the loop check: convert, AddAndCheck, then send the
\* LoopDetected event and return, or forward
CheckAndForwardEvent(event) ==
    /\ LDSAddAndCheck(gominiEvent(event))
    /\ IF ret'
       THEN call' = [call EXCEPT
                !.providerChan = Tail(@),
                !.resultChan = Append(@,
                    NewLoopDetectedEvent(loopType(gominiEvent(event)),
                        call.promptID, sessionTurnCount, 0)),
                !.pc = "done"]
       ELSE call' = [call EXCEPT
                !.providerChan = Tail(@),
                !.resultChan = Append(@, gominiEvent(event)),
                !.pc = IF event.Type = EventError
                          \/ Tail(call.providerChan) = << >>
                       THEN "done" ELSE "stream"]

\* a loop body that checks whatever the configuration says
StreamEventChecked(event) == CheckAndForwardEvent(event)

\* one iteration of the loop over providerChan for the event received
StreamEvent(event) ==
    IF config.LoopDetectionEnabled
    THEN CheckAndForwardEvent(event)
    ELSE ForwardEvent(event)

\* a loop that drops the event when resultChan is full
StreamStepDropping ==
    /\ call.pc = "stream"
    /\ call.providerChan # << >>
    /\ IF Len(call.resultChan) < ResultChanCap
       THEN StreamEvent(Head(call.providerChan))
       ELSE /\ call' = [call EXCEPT
                    !.providerChan = Tail(@),
                    !.pc = IF Tail(call.providerChan) = << >>
                           THEN "done" ELSE "stream"]
            /\ UNCHANGED <<detVars, ret, log, lastOp, before>>
    /\ UNCHANGED <<config, sessionTurnCount, lastPromptID, scen>>

\* the iteration needs room in resultChan for the event it sends
StreamStep ==
    /\ call.pc = "stream"
    /\ call.providerChan # << >>
    /\ Len(call.resultChan) < ResultChanCap
    /\ StreamEvent(Head(call.providerChan))
    /\ UNCHANGED <<config, sessionTurnCount, lastPromptID, scen>>

\* the consumer receives the next event from resultChan
Consume ==
    /\ call.pc # "idle"
    /\ call.resultChan # << >>
    /\ call' = [call EXCEPT !.resultChan = Tail(@),
                            !.out = Append(@, Head(call.resultChan))]
    /\ UNCHANGED <<detVars, config, sessionTurnCount, lastPromptID, obsVars>>

\* the caller cancels the ctx of the call; nothing in SendMessageStream
\* reads ctx.Done
Cancel ==
    /\ call.pc \in {"setup", "turn", "stream"}
    /\ ~call.cancelled
    /\ call' = [call EXCEPT
           !.cancelled = TRUE,
           !.sentAtCancel = Len(call.out) + Len(call.resultChan)]
    /\ UNCHANGED <<detVars, config, sessionTurnCount, lastPromptID, obsVars>>

InitCalls ==
    /\ InitLDS
    /\ InitSendMessageStream
    /\ scen = "none"

NextCalls ==
    \/ \E p \in PromptIDs : SendMessageStream(p)
    \/ SessionSetup
    \/ TurnStart
    \/ StreamStep
    \/ Consume

SpecCalls == InitCalls /\ [][NextCalls]_vars

\* SpecCancel: calls whose ctx the caller may cancel
MaxCancelCalls == 2

NextCancel ==
    \/ call.calls < MaxCancelCalls /\ \E p \in PromptIDs : SendMessageStream(p)
    \/ SessionSetup
    \/ TurnStart
    \/ StreamStep
    \/ Consume
    \/ Cancel

SpecCancel == InitCalls /\ [][NextCancel]_vars

\* SpecOverlap: SendMessageStream calls with promptID "p1" whose goroutines
\* run at the same time on one Client.  Client has no lock, so the reads and
\* writes of lastPromptID and sessionTurnCount (lines 158-167) are steps of
\* their own and c.sessionTurnCount++ is a load and a store; the detector's
\* methods run under its mutex.  call[g] is goroutine g: its position, the
\* value it loaded for the increment, whether it contacted the provider,
\* and what it sent on its resultChan.  The provider answers each call with
\* one Finished event.
MaxOverlapCalls == 2

Goroutines == 1..MaxOverlapCalls

InitOverlap ==
    /\ InitLDS
    /\ config \in [MaxSessionTurns : Budgets, LoopDetectionEnabled : BOOLEAN]
    /\ sessionTurnCount = 0
    /\ lastPromptID = ""
    /\ call = [g \in Goroutines |->
                  [pc |-> "idle", loaded |-> 0, contacted |-> FALSE,
                   out |-> << >>]]
    /\ scen = "none"

\* SendMessageStream(ctx, request, "p1") starts goroutine g
OverlapCall(g) ==
    /\ call[g].pc = "idle"
    /\ call' = [call EXCEPT ![g].pc = "identity"]
    /\ UNCHANGED <<detVars, config, sessionTurnCount, lastPromptID, obsVars>>

\* line 158: c.lastPromptID != promptID
OverlapIdentity(g) ==
    /\ call[g].pc = "identity"
    /\ call' = [call EXCEPT
           ![g].pc = IF lastPromptID # "p1" THEN "reset" ELSE "load"]
    /\ UNCHANGED <<detVars, config, sessionTurnCount, lastPromptID, obsVars>>

\* line 159: c.loopDetector.Reset(promptID)
OverlapReset(g) ==
    /\ call[g].pc = "reset"
    /\ LDSReset("p1")
    /\ call' = [call EXCEPT ![g].pc = "setid"]
    /\ UNCHANGED <<config, sessionTurnCount, lastPromptID, scen>>

\* line 160: c.lastPromptID = promptID
OverlapSetID(g) ==
    /\ call[g].pc = "setid"
    /\ lastPromptID' = "p1"
    /\ call' = [call EXCEPT ![g].pc = "zero"]
    /\ UNCHANGED <<detVars, config, sessionTurnCount, obsVars>>

\* line 161: c.sessionTurnCount = 0
OverlapZero(g) ==
    /\ call[g].pc = "zero"
    /\ sessionTurnCount' = 0
    /\ call' = [call EXCEPT ![g].pc = "load"]
    /\ UNCHANGED <<detVars, config, lastPromptID, obsVars>>

\* line 164, c.sessionTurnCount++: the load
OverlapLoad(g) ==
    /\ call[g].pc = "load"
    /\ call' = [call EXCEPT ![g].pc = "store",
                            ![g].loaded = sessionTurnCount]
    /\ UNCHANGED <<detVars, config, sessionTurnCount, lastPromptID, obsVars>>

\* line 164, c.sessionTurnCount++: the store
OverlapStore(g) ==
    /\ call[g].pc = "store"
    /\ sessionTurnCount' = call[g].loaded + 1
    /\ call' = [call EXCEPT ![g].pc = "limit"]
    /\ UNCHANGED <<detVars, config, lastPromptID, obsVars>>

\* lines 167-172: the session turn limit
OverlapLimit(g) ==
    /\ call[g].pc = "limit"
    /\ IF SessionTurnLimitExceeded(sessionTurnCount)
       THEN call' = [call EXCEPT
                ![g].out = Append(@,
                    NewMaxSessionTurnsEvent(sessionTurnCount,
                        config.MaxSessionTurns, "p1")),
                ![g].pc = "done"]
       ELSE call' = [call EXCEPT ![g].pc = "turn"]
    /\ UNCHANGED <<detVars, config, sessionTurnCount, lastPromptID, obsVars>>

\* lines 175-195: the check at turn start and the provider's
\* SendMessageStream
OverlapTurn(g) ==
    /\ call[g].pc = "turn"
    /\ IF config.LoopDetectionEnabled
       THEN LDSTurnStarted
       ELSE UNCHANGED <<detVars, ret, log, lastOp, before>>
    /\ IF config.LoopDetectionEnabled /\ ret'
       THEN call' = [call EXCEPT
                ![g].out = Append(@,
                    NewLoopDetectedEvent(LoopTypeLLMDetected, "p1",
                                         sessionTurnCount, 0)),
                ![g].pc = "done"]
       ELSE call' = [call EXCEPT ![g].contacted = TRUE,
                                 ![g].pc = "stream"]
    /\ UNCHANGED <<config, sessionTurnCount, lastPromptID, scen>>

\* lines 196-235: the loop over providerChan for the provider's one event
OverlapStream(g) ==
    /\ call[g].pc = "stream"
    /\ IF config.LoopDetectionEnabled
       THEN LDSAddAndCheck(gominiEvent(FinishedEvent))
       ELSE UNCHANGED <<detVars, ret, log, lastOp, before>>
    /\ call' = [call EXCEPT
           ![g].out = Append(@,
               IF config.LoopDetectionEnabled /\ ret'
               THEN NewLoopDetectedEvent(loopType(gominiEvent(FinishedEvent)),
                        "p1", sessionTurnCount, 0)
               ELSE gominiEvent(FinishedEvent)),
           ![g].pc = "done"]
    /\ UNCHANGED <<config, sessionTurnCount, lastPromptID, scen>>

NextOverlap ==
    \E g \in Goroutines :
        \/ OverlapCall(g)
        \/ OverlapIdentity(g)
        \/ OverlapReset(g)
        \/ OverlapSetID(g)
        \/ OverlapZero(g)
        \/ OverlapLoad(g)
        \/ OverlapStore(g)
        \/ OverlapLimit(g)
        \/ OverlapTurn(g)
        \/ OverlapStream(g)

SpecOverlap == InitOverlap /\ [][NextOverlap]_vars

----------------
(* Properties of the service                                                *)

\* the first n logged calls all fed the same tool call
SameCallPrefix(n) ==
    n >= 1 /\ \A i \in 1..n : SameToolCall(log[i].ev, log[1].ev)

\* C1: from a Reset (or new) session, feeding the same tool call (same name
\* and arguments, any call ID) returns false on calls 1 .. THRESHOLD-1 and
\* true on call THRESHOLD and on every call after it.
C1_ToolCallThreshold ==
    \A n \in 1..Len(log) :
        SameCallPrefix(n) => (log[n].ret = (n >= TOOL_CALL_LOOP_THRESHOLD))

\* the same call was fed THRESHOLD+1 times under different call IDs
C1_Witness ==
    /\ Len(log) = TOOL_CALL_LOOP_THRESHOLD + 1
    /\ SameCallPrefix(Len(log))
    /\ \E i \in 1..Len(log) : log[i].ev.Data.CallID # log[1].ev.Data.CallID
    /\ ~log[TOOL_CALL_LOOP_THRESHOLD - 1].ret
    /\ log[TOOL_CALL_LOOP_THRESHOLD].ret
    /\ log[TOOL_CALL_LOOP_THRESHOLD + 1].ret

\* some logged AddAndCheck call returned true
Latched == \E i \in 1..Len(log) : log[i].ret

\* C2: once AddAndCheck has returned true, every later AddAndCheck returns
\* true whatever the event, IsLoopDetected reads true, and only Reset turns
\* the sticky flag from true to false.
C2_StickyLatch ==
    /\ [](\A i, j \in 1..Len(log) : (i <= j /\ log[i].ret) => log[j].ret)
    /\ [](Latched => IsLoopDetected)
    /\ [][(loopDetected /\ lastOp' # "Reset") => loopDetected']_vars

\* after the latch, non-repeating content, a pass-through event and a
\* different tool call were fed
C2_Witness ==
    \E i \in 1..Len(log) :
        /\ log[i].ret
        /\ \E j \in (i + 1)..Len(log) : log[j].ev \in {COther, TcA1}
        /\ \E j \in (i + 1)..Len(log) : log[j].ev = FinishedEvent
        /\ IsLoopDetected

\* the tool calls among the first n logged calls
ToolCallsUpTo(n) ==
    SelectSeq(SubSeq(log, 1, n), LAMBDA x : IsToolCall(x.ev))
\* the content text fed by the first n logged calls
RECURSIVE ContentUpTo(_)
ContentUpTo(n) ==
    IF n = 0 THEN << >>
    ELSE ContentUpTo(n - 1)
           \o (IF IsContent(log[n].ev) THEN log[n].ev.Data.Text ELSE << >>)

\* among the calls since Reset, the last THRESHOLD tool calls up to call n
\* are the same call
ToolThresholdReached(n) ==
    LET tcs == ToolCallsUpTo(n) IN
    /\ IsToolCall(log[n].ev)
    /\ Len(tcs) >= TOOL_CALL_LOOP_THRESHOLD
    /\ \A i \in (Len(tcs) - TOOL_CALL_LOOP_THRESHOLD + 1)..Len(tcs) :
           SameToolCall(tcs[i].ev, log[n].ev)
\* the text fed since Reset up to call n holds at least THRESHOLD chunks
ContentThresholdReached(n) ==
    /\ IsContent(log[n].ev)
    /\ Len(ContentUpTo(n))
         >= CONTENT_CHUNK_SIZE + CONTENT_LOOP_THRESHOLD - 1

\* C4: Reset clears the sticky flag, the tool-call streak and the content
\* buffer and index (also after a latch under another prompt), and after it
\* AddAndCheck first reports a loop only when the tool-call threshold or the
\* content threshold has been reached by the calls made since the Reset.
C4_ResetIsolation ==
    /\ lastOp = "Reset" =>
           /\ ~loopDetected
           /\ lastToolCallKey = << >> /\ toolCallRepetitionCount = 0
           /\ streamContentHistory = << >> /\ contentStats = << >>
           /\ lastContentIndex = 0
    /\ \A n \in 1..Len(log) :
           (log[n].ret /\ \A i \in 1..(n - 1) : ~log[i].ret)
               => (ToolThresholdReached(n) \/ ContentThresholdReached(n))

\* a loop was latched under one prompt, the session was Reset for another
\* prompt, and the loop was reported again
C4_Witness ==
    /\ before.latched
    /\ before.promptID # promptID
    /\ Latched

\* C5: Reset leaves every tracker in its initial state whatever the state
\* before: signature cleared, buffer and index empty, cursor 0, code-fence
\* flag false, turn counter 0, sticky flag false.
C5_ResetClearsAll ==
    lastOp = "Reset" =>
        LDS = [NewLoopDetectionService EXCEPT !.promptID = promptID]

C9_SpacedNeverLoops ==
    scen.phase \in {"string", "filler"} => ~Latched

\* C9 amended: the same, for a string and a filler in which no chunk of
\* CHUNK_SIZE bytes occurs twice within one period (string + filler).
C9_SpacedNoRepeatNeverLoops ==
    (scen.phase \in {"string", "filler"} /\ scen.norepeat) => ~Latched

\* string and filler were fed MaxSpacedFeeds times, the buffer was truncated
\* and ten occurrences of a chunk are on record, without a loop
C9_Witness ==
    /\ scen.phase \in {"string", "filler"} /\ scen.norepeat
    /\ scen.n >= 2 * CONTENT_LOOP_THRESHOLD
    /\ Len(streamContentHistory) = MAX_HISTORY_LENGTH
    /\ \E h \in DOMAIN contentStats :
           Len(contentStats[h]) >= CONTENT_LOOP_THRESHOLD
    /\ ~Latched

\* C10: when a fragment with an odd number of fence delimiters opens a code
\* fence, a fence-free fragment is repeated (20 times or more) and a
\* fragment closes the fence, AddAndCheck returns false on the opening
\* fragment, on every repeated fragment and on the closing fragment.
C10_FenceImmunity ==
    scen.phase \in {"open", "repeat", "closed"} =>
        \A i \in scen.start..Len(log) : ~log[i].ret

\* fence opened, fragment repeated 20 times or more, fence closed
C10_Witness ==
    /\ scen.phase = "closed"
    /\ scen.n >= 20
    /\ Len(log) = scen.start + scen.n + 1
    /\ lastOp = "AddAndCheck" /\ ret = FALSE
    /\ ~inCodeBlock

\* what a call has sent so far: received by the consumer or still buffered
Emitted == call.out \o call.resultChan
\* the provider events the forwarding loop has taken from providerChan
Taken == SubSeq(call.stream, 1, Len(call.stream) - Len(call.providerChan))

\* C3: with MaxSessionTurns = M > 0, each of the first M consecutive calls
\* under one PromptIdentity passes the limit without a MaxSessionTurnsReached
\* event and goes on to the provider (a call whose requested provider switch
\* fails ends with that error instead); call M+1 emits
\* MaxSessionTurnsReached with currentTurns = M+1 and maxTurns = M as its
\* only event and does not contact the provider; a call under a new
\* PromptIdentity proceeds with the count at 1.
C3_TurnBudget ==
    (config.MaxSessionTurns > 0 /\ call.pc \in {"turn", "stream", "done"}) =>
        /\ call.seq <= config.MaxSessionTurns =>
               /\ ~call.limited
               /\ \A i \in 1..Len(Emitted) :
                      Emitted[i].Type # EventMaxSessionTurns
               /\ call.pc = "done" =>
                      (call.contacted \/ Emitted = <<NewErrorEvent>>)
        /\ call.seq = config.MaxSessionTurns + 1 =>
               /\ call.pc = "done"
               /\ ~call.contacted
               /\ Emitted = <<NewMaxSessionTurnsEvent(
                                 config.MaxSessionTurns + 1,
                                 config.MaxSessionTurns, call.promptID)>>
        /\ call.seq = 1 => sessionTurnCount = 1

\* the call after the one the limit ended runs under a new PromptIdentity
\* and streams from the provider, the count at 1
C3_Witness ==
    /\ config.MaxSessionTurns > 0
    /\ call.afterLimited
    /\ call.seq = 1
    /\ sessionTurnCount = 1
    /\ call.contacted
    /\ call.pc = "done"
    /\ call.resultChan = << >>
    /\ call.out # << >>

\* C6: with LoopDetectionEnabled = false the consumer is sent the provider's
\* stream event for event: the events sent are the provider's events in
\* order, as many as the provider sent once the call is over, and none is a
\* LoopDetected event.
C6_DisabledPassThrough ==
    (~config.LoopDetectionEnabled /\ call.contacted) =>
        /\ Emitted = [i \in 1..Len(Taken) |-> gominiEvent(Taken[i])]
        /\ call.pc = "done" => Len(Emitted) = Len(call.stream)
        /\ \A i \in 1..Len(Emitted) : Emitted[i].Type # EventLoopDetected

\* ten identical tool calls were received by the consumer
C6_Witness ==
    /\ ~config.LoopDetectionEnabled
    /\ call.pc = "done"
    /\ call.resultChan = << >>
    /\ Len(call.out) = 2 * TOOL_CALL_LOOP_THRESHOLD
    /\ \A i \in 1..Len(call.out) : call.out[i] = TcA1

\* C7: with LoopDetectionEnabled = false the client makes no call into the
\* loop detection session (no Reset, no TurnStarted, no AddAndCheck) and the
\* session's state stays as it was constructed, also when the PromptIdentity
\* changes.
C7_DisabledNoDetectorCalls ==
    ~config.LoopDetectionEnabled =>
        (lastOp = "none" /\ LDS = NewLoopDetectionService)

\* the provider stream of 2 x TOOL_CALL_LOOP_THRESHOLD identical tool calls
IdenticalToolCalls == [i \in 1..(2 * TOOL_CALL_LOOP_THRESHOLD) |-> TcA1]
\* the last AddAndCheck made for the call in progress returned true
LastCheckTrue ==
    /\ config.LoopDetectionEnabled
    /\ Len(Taken) > 0
    /\ lastOp = "AddAndCheck"
    /\ ret

C12_OrderPreserved ==
    call.contacted =>
        /\ Len(call.resultChan) <= ResultChanCap
        /\ Len(Emitted) = Len(Taken)
        /\ \A i \in 1..Len(Emitted) :
               Emitted[i].Type # EventLoopDetected =>
                   Emitted[i] = gominiEvent(call.stream[i])
        /\ (call.pc = "done" /\ Len(Emitted) > 0
              /\ Emitted[Len(Emitted)].Type # EventLoopDetected) =>
               Len(Emitted) = Len(call.stream)

\* resultChan is full, the consumer has received nothing yet and the
\* provider has more events: the loop waits
C12_Witness ==
    /\ call.pc = "stream"
    /\ Len(call.resultChan) = ResultChanCap
    /\ call.out = << >>
    /\ call.providerChan # << >>
    /\ Len(Taken) = ResultChanCap

\* C13: a LoopDetected event sent while the provider stream is consumed has
\* kind tool-call or content: tool-call when the event last fed to
\* AddAndCheck was a tool call, content when it was content; its turnCount
\* is the client's sessionTurnCount.
C13_LoopKind ==
    \A i \in 1..Len(Emitted) :
        (call.contacted /\ Emitted[i].Type = EventLoopDetected) =>
            LET fed == gominiEvent(call.stream[i]) IN
            /\ log[Len(log)].ev = fed
            /\ Emitted[i].Data.LoopType \in {LoopTypeToolCall, LoopTypeContent}
            /\ fed.Type = EventToolCall =>
                   Emitted[i].Data.LoopType = LoopTypeToolCall
            /\ fed.Type = EventContent =>
                   Emitted[i].Data.LoopType = LoopTypeContent
            /\ Emitted[i].Data.TurnCount = sessionTurnCount

\* a content loop reported in the second call under one promptID
C13_Witness ==
    /\ call.contacted
    /\ call.pc = "done"
    /\ call.resultChan = << >>
    /\ call.out # << >>
    /\ call.out[Len(call.out)].Type = EventLoopDetected
    /\ call.out[Len(call.out)].Data.LoopType = LoopTypeContent
    /\ call.out[Len(call.out)].Data.TurnCount = 2
    /\ sessionTurnCount = 2

\* the number of logged calls up to call n that repeat call n without a
\* different call in between
RECURSIVE StreakLen(_)
StreakLen(n) ==
    IF n > 1 /\ SameToolCall(log[n].ev, log[n - 1].ev)
    THEN StreakLen(n - 1) + 1
    ELSE 1
\* no logged call before call n returned true
NoLoopBefore(n) == \A i \in 1..(n - 1) : ~log[i].ret
\* each logged call differs from the one before it
Alternating ==
    \A i \in 2..Len(log) : ~SameToolCall(log[i].ev, log[i - 1].ev)

\* C14: a tool call whose signature differs from the stored one sets the
\* repeat count to 1, so the count is the length of the current streak and
\* a loop is reported exactly when TOOL_CALL_LOOP_THRESHOLD consecutive
\* identical calls have been fed since the last differing call; alternating
\* between two different tool calls never reports a loop.
C14_StreakRestartsAtOne ==
    /\ (Len(log) >= 1 /\ NoLoopBefore(Len(log))) =>
           /\ toolCallRepetitionCount = StreakLen(Len(log))
           /\ (Len(log) = 1
                 \/ ~SameToolCall(log[Len(log)].ev, log[Len(log) - 1].ev)) =>
                  toolCallRepetitionCount = 1
    /\ \A n \in 1..Len(log) :
           NoLoopBefore(n) =>
               (log[n].ret = (StreakLen(n) >= TOOL_CALL_LOOP_THRESHOLD))
    /\ Alternating => ~Latched

\* a streak, one differing call, then THRESHOLD identical calls: the loop
\* is reported on the last of them
C14_Witness ==
    /\ Len(log) = TOOL_CALL_LOOP_THRESHOLD + 3
    /\ SameToolCall(log[1].ev, log[2].ev)
    /\ ~SameToolCall(log[2].ev, log[3].ev)
    /\ SameToolCall(log[2].ev, log[4].ev)
    /\ StreakLen(Len(log)) = TOOL_CALL_LOOP_THRESHOLD
    /\ NoLoopBefore(Len(log))
    /\ log[Len(log)].ret
    /\ toolCallRepetitionCount = TOOL_CALL_LOOP_THRESHOLD

\* C15: once a call with promptID P is past its session management (and so
\* when it is completed), lastPromptID = P and sessionTurnCount is the
\* number of consecutive calls made with P since the promptID last changed:
\* 1 right after a change, one more for each further call with the same P; a
\* change of promptID has also called Reset(P) on the loop detector.
C15_PromptIdentityAndTurns ==
    call.pc \in {"turn", "stream", "done"} =>
        /\ lastPromptID = call.promptID
        /\ sessionTurnCount = call.seq
        /\ promptID = call.promptID
        /\ (call.pc = "turn" /\ call.seq = 1) =>
               (lastOp = "Reset" /\ log = << >> /\ ~loopDetected)

\* the third call in a row with one promptID, made after a call with another
C15_Witness ==
    /\ call.pc = "done"
    /\ call.resultChan = << >>
    /\ call.seq = 3
    /\ sessionTurnCount = 3
    /\ lastPromptID = call.promptID
    /\ before.promptID # ""
    /\ before.promptID # call.promptID

\* C16: in every state reached by Reset, AddAndCheck and TurnStarted calls
\* the history holds at most MAX_HISTORY_LENGTH bytes and every offset in
\* the index is the start of a whole chunk of the history: 0 <= offset and
\* offset + CONTENT_CHUNK_SIZE <= length of the history.
C16_BufferAndOffsetsBounded ==
    /\ Len(streamContentHistory) <= MAX_HISTORY_LENGTH
    /\ \A hash \in DOMAIN contentStats :
           \A i \in 1..Len(contentStats[hash]) :
               /\ 0 <= contentStats[hash][i]
               /\ contentStats[hash][i] + CONTENT_CHUNK_SIZE
                      <= Len(streamContentHistory)

\* the history was truncated to its full length and the index holds an
\* offset for every whole chunk of it
C16_Witness ==
    /\ Len(streamContentHistory) = MAX_HISTORY_LENGTH
    /\ Len(log) >= 2
    /\ lastContentIndex = MAX_HISTORY_LENGTH - CONTENT_CHUNK_SIZE + 1
    /\ \E hash \in DOMAIN contentStats : contentStats[hash][1] = 0
    /\ \E hash \in DOMAIN contentStats :
           \E i \in 1..Len(contentStats[hash]) :
               contentStats[hash][i] = MAX_HISTORY_LENGTH - CONTENT_CHUNK_SIZE

\* the session after 100 more bytes are appended to its history, before and
\* after truncateAndUpdate, and the number of bytes the truncation drops
Probe == Text(3, 100)
Appended == [LDS EXCEPT !.streamContentHistory = @ \o Probe]
Truncated == truncateAndUpdate(Appended)
Dropped == Len(Appended.streamContentHistory) - MAX_HISTORY_LENGTH
\* the offsets of a list that are not before the dropped bytes, shifted
Shifted(offsets, d) ==
    LET kept == SelectSeq(offsets, LAMBDA o : o >= d)
    IN  [i \in 1..Len(kept) |-> kept[i] - d]

\* C17: truncation shifts every stored offset and the cursor left by the
\* number of bytes dropped from the front, removes the offsets that would be
\* negative and the fingerprints left without offset; after any number of
\* truncations every offset recorded under a fingerprint is the start of a
\* chunk of the current history that has that fingerprint and equals the
\* chunk at the fingerprint's first offset, which is what the
\* re-verification compares with.
C17_TruncationKeepsOffsetsTrue ==
    /\ \A hash \in DOMAIN contentStats :
           /\ Len(contentStats[hash]) > 0
           /\ \A i \in 1..Len(contentStats[hash]) :
                  LET chunk == ChunkAt(streamContentHistory,
                                      contentStats[hash][i])
                  IN  /\ hashChunk(chunk) = hash
                      /\ isActualContentMatch(LDS, chunk,
                                              contentStats[hash][1])
    /\ Dropped > 0 =>
           LET t == Truncated
               stats == t.contentStats
           IN  /\ t.streamContentHistory =
                      Slice(Appended.streamContentHistory, Dropped,
                            Len(Appended.streamContentHistory))
               /\ t.lastContentIndex = Max(0, lastContentIndex - Dropped)
               /\ DOMAIN stats =
                      {hash \in DOMAIN contentStats :
                          \E i \in 1..Len(contentStats[hash]) :
                              contentStats[hash][i] >= Dropped}
               /\ \A hash \in DOMAIN stats :
                      stats[hash] = Shifted(contentStats[hash], Dropped)

\* after two truncations a fingerprint holds two offsets, the first of them
\* shifted to the front of the history, and fingerprints were removed
C17_Witness ==
    /\ Len(log) = 3
    /\ Len(streamContentHistory) = MAX_HISTORY_LENGTH
    /\ \A i \in 1..Len(log) : IsContent(log[i].ev)
    /\ \E hash \in DOMAIN contentStats :
           /\ Len(contentStats[hash]) = 2
           /\ contentStats[hash][1] = 0
    /\ Cardinality(DOMAIN contentStats) < lastContentIndex
    /\ Dropped > 0


\* C18: the consumption loop observes the cancellation of ctx at every point
\* where it can suspend; once ctx is cancelled it takes no further provider
\* event and puts no further event on the outbound stream.
C18_CancelStopsForwarding ==
    call.cancelled =>
        Len(call.out) + Len(call.resultChan) = call.sentAtCancel


\* a tool call whose arguments json.Marshal rejects
Malformed(event) ==
    /\ event.Type = EventToolCall
    /\ \E k \in DOMAIN event.Data.Arguments :
           event.Data.Arguments[k] = Unserializable

\* C19: a tool call whose arguments cannot be serialized has no signature
\* and is skipped for loop counting, so malformed calls of one tool, each
\* with other arguments than the call before it, never make AddAndCheck
\* report a loop, whatever their number.
C19_MalformedNeverLoops ==
    (/\ \A i \in 1..Len(log) : Malformed(log[i].ev)
     /\ \A i \in 2..Len(log) :
            log[i].ev.Data.Arguments # log[i - 1].ev.Data.Arguments)
        => ~Latched


\* C20: every TurnStarted call adds exactly one to the session's turn
\* counter and returns false, also when a loop is latched; after a Reset
\* (or construction) followed by k TurnStarted calls the counter is k.
C20_TurnStartedCounts ==
    /\ [](turnsInCurrentPrompt = scen.turns)
    /\ [](lastOp = "TurnStarted" => ~ret)
    /\ [][lastOp' = "TurnStarted" =>
             /\ turnsInCurrentPrompt' = turnsInCurrentPrompt + 1
             /\ ~ret'
             /\ loopDetected' = loopDetected]_vars

\* a latched session has just started its third turn since the Reset
C20_Witness ==
    /\ lastOp = "TurnStarted"
    /\ loopDetected
    /\ Latched
    /\ before.latched
    /\ scen.turns = 3
    /\ turnsInCurrentPrompt = 3


\* the call just made was an AddAndCheck of a content fragment that
\* reported a loop on an unlatched session
ContentLoopReported ==
    /\ lastOp = "AddAndCheck"
    /\ ret
    /\ IsContent(log[Len(log)].ev)
    /\ Len(log) > 1 => ~log[Len(log) - 1].ret
\* the offsets the cluster test looked at when it reported the loop: the
\* most recent CONTENT_LOOP_THRESHOLD occurrences of the chunk at the cursor
CountedOffsets ==
    LET offsets ==
            contentStats[hashChunk(ChunkAt(streamContentHistory,
                                           lastContentIndex))]
    IN  {offsets[i] :
            i \in (Len(offsets) - CONTENT_LOOP_THRESHOLD + 1)..Len(offsets)}
\* the counted occurrences lie on both sides of the history position b
CountedAcross(b) ==
    /\ b >= 0
    /\ \E o \in CountedOffsets : o + CONTENT_CHUNK_SIZE <= b
    /\ \E o \in CountedOffsets : o >= b

\* C21: a fragment with a structural marker clears the index, and
\* occurrences of a chunk that lie in the history before the marker
\* fragment are never counted together with occurrences after it when a
\* content loop is reported.
C21_NoEvidenceAcrossMarker ==
    ContentLoopReported => ~CountedAcross(scen.marker)

\* C22: a tool call clears the index (keeping the history) before the
\* tool-call check, and occurrences of a chunk from before the tool call
\* are never counted together with occurrences after it when a content loop
\* is reported.
C22_NoEvidenceAcrossToolCall ==
    ContentLoopReported => ~CountedAcross(scen.toolCall)


\* C23: a latched loop outlives the call that detected it: when an earlier
\* call with the same promptID sent LoopDetected (no other promptID in
\* between, detection enabled, turn limit not exceeded), the call takes at
\* most one provider event, sends LoopDetected in its place whatever the
\* event is, and forwards no provider event.
C23_LatchOutlivesCall ==
    (call.loopBefore /\ config.LoopDetectionEnabled /\ call.contacted) =>
        /\ Len(Taken) <= 1
        /\ Len(Taken) = 0 => Emitted = << >>
        /\ Len(Taken) = 1 =>
               /\ Emitted = <<NewLoopDetectedEvent(
                                  loopType(gominiEvent(Taken[1])),
                                  call.promptID, sessionTurnCount, 0)>>
               /\ call.pc = "done"

\* the call after a call that ended with LoopDetected took an error event
\* from the provider and sent LoopDetected for it
C23_Witness ==
    /\ call.loopBefore
    /\ call.contacted
    /\ config.LoopDetectionEnabled
    /\ call.pc = "done"
    /\ Taken = <<ErrorEvent>>
    /\ Len(Emitted) = 1
    /\ Emitted[1].Type = EventLoopDetected
    /\ call.seq >= 2


\* C24: with MaxSessionTurns = M > 0 and calls that overlap on one Client
\* under one promptID, when all calls made have ended the session turn
\* count equals the number of calls made and at most M of them contacted
\* the provider.
C24_TurnBudgetUnderOverlap ==
    (/\ config.MaxSessionTurns > 0
     /\ \A g \in Goroutines : call[g].pc \in {"idle", "done"})
        => /\ sessionTurnCount =
                  Cardinality({g \in Goroutines : call[g].pc = "done"})
           /\ Cardinality({g \in Goroutines : call[g].contacted})
                  <= config.MaxSessionTurns


\* the distance the cluster test allows between the oldest and the newest
\* of CONTENT_LOOP_THRESHOLD occurrences: 1.5 x CHUNK_SIZE on average
MaxClusterSpan == (3 * CONTENT_CHUNK_SIZE * (CONTENT_LOOP_THRESHOLD - 1)) \div 2
\* the span of the CONTENT_LOOP_THRESHOLD entries of offsets that end at
\* entry j
SpanEndingAt(offsets, j) ==
    offsets[j] - offsets[j - CONTENT_LOOP_THRESHOLD + 1]

\* C25: in the sliding-window scan every verified repeat of a chunk is
\* appended to its fingerprint's offset list; no loop is declared while the
\* list has fewer than CONTENT_LOOP_THRESHOLD entries, and with at least
\* that many a loop is declared iff the span of the most recent
\* CONTENT_LOOP_THRESHOLD offsets is at most 675; the cursor advances by
\* one character, so no offset is skipped.
C25_ClusterTest ==
    /\ MaxClusterSpan = 675
    \* the cursor stays on the offsets at which a full chunk can start
    /\ lastContentIndex
           <= Max(0, Len(streamContentHistory) - CONTENT_CHUNK_SIZE + 1)
    \* every offset behind the cursor is on record when its chunk equals the
    \* chunk at the first offset of its fingerprint
    /\ \A o \in 0..(lastContentIndex - 1) :
           LET chunk == ChunkAt(streamContentHistory, o)
               hash == hashChunk(chunk)
           IN  /\ hash \in DOMAIN contentStats
               /\ isActualContentMatch(LDS, chunk, contentStats[hash][1])
                    => \E i \in 1..Len(contentStats[hash]) :
                           contentStats[hash][i] = o
    \* a scan that reported nothing looked at every full chunk
    /\ (scen.phase = "feed" /\ ~inCodeBlock /\ ~loopDetected) =>
           lastContentIndex =
               Max(0, Len(streamContentHistory) - CONTENT_CHUNK_SIZE + 1)
    \* no loop declared: every test made found a span above 675
    /\ ~loopDetected =>
           \A hash \in DOMAIN contentStats :
               \A j \in CONTENT_LOOP_THRESHOLD..Len(contentStats[hash]) :
                   SpanEndingAt(contentStats[hash], j) > MaxClusterSpan
    \* loop declared: the chunk at the cursor was appended as an entry
    \* number CONTENT_LOOP_THRESHOLD or later and the span is at most 675
    /\ (scen.phase = "feed" /\ loopDetected) =>
           LET offsets ==
                   contentStats[hashChunk(ChunkAt(streamContentHistory,
                                                  lastContentIndex))]
           IN  /\ Len(offsets) >= CONTENT_LOOP_THRESHOLD
               /\ offsets[Len(offsets)] = lastContentIndex
               /\ SpanEndingAt(offsets, Len(offsets)) <= MaxClusterSpan
               /\ \A j \in CONTENT_LOOP_THRESHOLD..(Len(offsets) - 1) :
                      SpanEndingAt(offsets, j) > MaxClusterSpan

\* a loop was declared on the tenth occurrence of a chunk, the ten
\* occurrences spanning exactly 675 bytes
C25_Witness ==
    /\ scen.phase = "feed" /\ loopDetected
    /\ Len(scen.str) = 75
    /\ LET offsets ==
               contentStats[hashChunk(ChunkAt(streamContentHistory,
                                              lastContentIndex))]
       IN  /\ Len(offsets) = CONTENT_LOOP_THRESHOLD
           /\ SpanEndingAt(offsets, Len(offsets)) = MaxClusterSpan


\* C26: on a latched session AddAndCheck only returns true: the stored tool
\* signature, the tool repeat count, the content history, the fingerprint
\* index, the scan cursor and the code-fence flag (and every other field of
\* the session) are as before the call, whatever the event.
C26_LatchedAddAndCheckIsNoOp ==
    [][(loopDetected /\ Len(log') = Len(log) + 1) =>
          /\ ret'
          /\ lastToolCallKey' = lastToolCallKey
          /\ toolCallRepetitionCount' = toolCallRepetitionCount
          /\ streamContentHistory' = streamContentHistory
          /\ contentStats' = contentStats
          /\ lastContentIndex' = lastContentIndex
          /\ inCodeBlock' = inCodeBlock
          /\ UNCHANGED detVars]_vars

\* a session latched by content was fed a tool call and then a code fence:
\* the index and the cursor are still those of the content loop and the
\* fence flag is still false
C26_Witness ==
    /\ Len(log) = 4
    /\ log[2].ret
    /\ IsContent(log[2].ev)
    /\ log[3].ev = TcA1
    /\ log[4].ev = CFence
    /\ ret
    /\ ~inCodeBlock
    /\ contentStats # << >>
    /\ lastToolCallKey = << >>
    /\ streamContentHistory # << >>


\* the offsets behind the cursor whose chunk has a digest that is in the
\* index for another text: the chunk differs from the chunk at the first
\* offset recorded under the digest
Collisions ==
    {o \in 0..(lastContentIndex - 1) :
        LET chunk == ChunkAt(streamContentHistory, o)
        IN  /\ hashChunk(chunk) \in DOMAIN contentStats
            /\ ~isActualContentMatch(LDS, chunk,
                                     contentStats[hashChunk(chunk)][1])}
\* the two strings were fed in turn
FedInTurn ==
    \A i \in 2..Len(log) : log[i].ev # log[i - 1].ev

\* C27: a chunk whose digest is in the index but whose text differs from
\* the text at the first offset recorded for the digest is not appended to
\* the offset list and does not count toward the threshold, and the scan
\* moves on by one character; no loop is declared on equal digests alone:
\* two strings with one digest fed in turn, each occurring every 100 bytes,
\* are never reported.
C27_CollisionNotCounted ==
    /\ \A o \in Collisions :
           LET offsets ==
                   contentStats[hashChunk(ChunkAt(streamContentHistory, o))]
           IN  \A i \in 1..Len(offsets) : offsets[i] # o
    /\ \A hash \in DOMAIN contentStats :
           \A i \in 1..Len(contentStats[hash]) :
               ChunkAt(streamContentHistory, contentStats[hash][i])
                   = ChunkAt(streamContentHistory, contentStats[hash][1])
    /\ ~loopDetected =>
           lastContentIndex =
               Max(0, Len(streamContentHistory) - CONTENT_CHUNK_SIZE + 1)
    /\ FedInTurn => ~Latched

\* the two strings were fed in turn MaxCollideEvents times: five chunks
\* behind the cursor collide with the first string, whose digest has five
\* offsets on record
C27_Witness ==
    /\ Len(log) = 10
    /\ FedInTurn
    /\ hashChunk(CollideA) = hashChunk(CollideB)
    /\ CollideA # CollideB
    /\ Cardinality(Collisions) = 5
    /\ 50 \in Collisions
    /\ Len(contentStats[hashChunk(CollideA)]) = 5
    /\ lastContentIndex = 451


\* C28: the tool-call streak is broken only by a tool call with another
\* signature or by Reset.  Content fragments, pass-through events, turn
\* starts and new calls under the same promptID leave the stored signature
\* and the repeat count as they are, so that the TOOL_CALL_LOOP_THRESHOLD-th
\* identical tool call since the Reset reports a loop whatever was fed
\* between the calls.
C28_StreakSurvivesTextAndTurns ==
    /\ [][(lastToolCallKey' # lastToolCallKey
             \/ toolCallRepetitionCount' # toolCallRepetitionCount)
          => \/ lastOp' = "Reset" /\ log' = << >>
             \/ /\ Len(log') = Len(log) + 1
                /\ log'[Len(log')].ev.Type = EventToolCall
                /\ ~loopDetected]_vars
    /\ [](\A i \in 1..Len(log) :
            (/\ log[i].ev.Type = EventToolCall
             /\ \A j \in 1..Len(ToolCallsUpTo(i)) :
                    SameToolCall(ToolCallsUpTo(i)[j].ev, log[i].ev)
             /\ \A j \in 1..(i - 1) : ~log[j].ret)
                => (log[i].ret
                      = (Len(ToolCallsUpTo(i)) >= TOOL_CALL_LOOP_THRESHOLD)))

\* the fifth identical tool call arrived in the fourth call under the
\* promptID, after content, error and finished events and four turn starts,
\* and was answered with LoopDetected
C28_Witness ==
    /\ call.seq = 4
    /\ turnsInCurrentPrompt = 4
    /\ Len(log) > TOOL_CALL_LOOP_THRESHOLD + 2
    /\ log[Len(log)].ret
    /\ ~log[Len(log) - 1].ret
    /\ Len(ToolCallsUpTo(Len(log))) = TOOL_CALL_LOOP_THRESHOLD
    /\ \E i \in 1..Len(log) : IsContent(log[i].ev)
    /\ \E i \in 1..Len(log) : log[i].ev.Type = EventError
    /\ \E i \in 1..Len(log) : log[i].ev.Type = EventFinished
    /\ Len(Emitted) >= 1
    /\ Emitted[Len(Emitted)].Type = EventLoopDetected


\* C29: a provider error event is forwarded as it was received and is the
\* last event of the stream: once the loop has taken an error event from
\* the provider, that event is the last one sent and the call has ended.
C29_ErrorForwardedAsIs ==
    (/\ call.pc \in {"stream", "done"}
     /\ call.contacted
     /\ Len(Taken) >= 1
     /\ Taken[Len(Taken)].Type = EventError)
        => /\ call.pc = "done"
           /\ Len(Emitted) >= 1
           /\ Emitted[Len(Emitted)] = gominiEvent(Taken[Len(Taken)])


\* C30: every content fragment with a list item line ('-', '*' or '+' and
\* whitespace, or digits, '.' and whitespace, after optional whitespace at
\* the start of a line) is recognised by the structural scan, which clears
\* the index before the fragment is analysed.
C30_EveryListItemRecognised ==
    LET HasListItemLine(s) ==
            \E j \in ItemStarts(s) :
                \/ /\ j + 1 <= Len(s)
                   /\ s[j] \in {45, 42, 43}
                   /\ IsSpace(s[j + 1])
                \/ \E k \in j..(Len(s) - 2) :
                       /\ \A m \in j..k : IsDigit(s[m])
                       /\ s[k + 1] = 46
                       /\ IsSpace(s[k + 2])
    IN  \A i \in 1..Len(log) :
            (IsContent(log[i].ev) /\ HasListItemLine(log[i].ev.Data.Text))
                => /\ hasListItem(log[i].ev.Data.Text)
                   /\ hasMarker(log[i].ev.Data.Text)

====
